---- MODULE Spec2Model ----
(***************************************************************************)
(* Model of dandidav's resource data model (src/dandiapi/types.rs) and of  *)
(* the WebDAV translation helpers (src/dav/util.rs).                       *)
(*                                                                         *)
(* Rust's Option<T> is modelled as a sequence of length at most one:       *)
(* None is << >> and Some(x) is <<x>>.  Result<T, E> is a record with an   *)
(* "ok" flag.  Enum values are records with a "variant" field.             *)
(***************************************************************************)
EXTENDS Integers, Sequences, FiniteSets, TLC

VARIABLES
    raw,          \* the RawAsset record handed to Asset::try_from
    converted,    \* Option<Result<Asset, AssetTypeError>>: result of try_from
    observed,     \* Option of the values returned by the Asset accessors
    located,      \* Option of the value returned by s3location / download_url
    entry,        \* the RawFolderEntry handed to FolderEntry::from
    folderEntry,  \* Option<FolderEntry>: result of FolderEntry::from
    res,          \* Option<DandiResource>: the resource with_s3 is called on
    client,       \* the PrefixedS3Client passed to with_s3
    atPath,       \* Option<AtAssetPath>: the value converted to DandiResourceWithS3
    withS3,       \* Option<DandiResourceWithS3>
    back,         \* Option<DandiResource>: withS3 converted back
    headers,      \* the values of the request's Depth headers, in order
    pc,           \* where the request is: "extract", "handler", "rejected", "done"
    depth,        \* Option<FiniteDepth>: what the extractor handed to the handler
    response,     \* Option<Response>: the response sent for the request
    backendCalls, \* number of backend calls made for the request so far
    path,         \* the bytes of the path string handed to Href::from_path
    href,         \* Option<Href>: the bytes of the string from_path returned
    dt,           \* an OffsetDateTime handed to format_modifieddate
    dt2,          \* a second OffsetDateTime handed to format_modifieddate
    rendered,     \* Option<String>: format_modifieddate(dt)
    rendered2     \* Option<String>: format_modifieddate(dt2)

assetVars == <<raw, converted, observed, located>>
entryVars == <<entry, folderEntry>>
resourceVars == <<res, client, atPath, withS3, back>>

depthVars == <<headers, pc, depth, response, backendCalls>>

hrefVars == <<path, href>>

dateVars == <<dt, dt2, rendered, rendered2>>

vars == <<assetVars, entryVars, resourceVars, depthVars, hrefVars, dateVars>>

None == << >>
Some(x) == <<x>>

Ok(v) == [ok |-> TRUE, val |-> v]
Err(e) == [ok |-> FALSE, err |-> e]

\* Sequences over S of length at most n
SeqUpTo(S, n) == UNION {[1..k -> S] : k \in 0..n}

(***************************************************************************)
(* dandiapi/types.rs: assets                                               *)
(***************************************************************************)

\* Largest number of content URLs in an asset's metadata
MaxUrls == 2

AssetIds == {"asset-1", "asset-2"}
BlobIds == {"blob-1"}
ZarrIds == {"zarr-1"}
AssetPaths == {"sub/img.nii", "data.zarr"}
Sizes == {0, 100}
\* OffsetDateTime values of the created / modified fields (opaque here)
Stamps == {"2021-01-01T00:00:00Z", "2022-06-15T12:30:00-04:00"}

\* url::Url values found in contentUrl
Urls ==
    { [scheme |-> "https", host |-> "api.dandiarchive.org", path |-> "api/assets/asset-1/download/"],
      [scheme |-> "https", host |-> "dandiarchive.s3.amazonaws.com", path |-> "blobs/b1"],
      [scheme |-> "https", host |-> "dandi-zarr.s3.us-east-2.amazonaws.com", path |-> "zarr/z1/"] }

\* Hosts that name a bucket of the object store, with the bucket they name
S3Hosts ==
    { [host |-> "dandiarchive.s3.amazonaws.com", bucket |-> "dandiarchive", region |-> None],
      [host |-> "dandi-zarr.s3.us-east-2.amazonaws.com", bucket |-> "dandi-zarr", region |-> Some("us-east-2")] }

\* S3Location::parse_url: Ok(location) for a URL of the object store, Err otherwise
ParseUrl(url) ==
    IF url.scheme = "https" /\ \E h \in S3Hosts : h.host = url.host
    THEN LET h == CHOOSE h \in S3Hosts : h.host = url.host
         IN  Ok([bucket |-> h.bucket, region |-> h.region, key |-> url.path])
    ELSE Err("UrlParseError")

AssetMetadatas ==
    [encoding_format : {None, Some("application/x-nifti")},
     content_url : SeqUpTo(Urls, MaxUrls),
     digest : [dandi_etag : {None}]]

RawAssets ==
    [asset_id : AssetIds,
     blob : {None} \cup {Some(b) : b \in BlobIds},
     zarr : {None} \cup {Some(z) : z \in ZarrIds},
     path : AssetPaths,
     size : Sizes,
     created : Stamps,
     modified : Stamps,
     metadata : AssetMetadatas]

\* TryFromRawAsset with the blob id taking precedence when both ids are set
TryFromRawAssetPreferBlob(value) ==
    IF value.blob # None
    THEN Ok([variant |-> "Blob", asset_id |-> value.asset_id, blob_id |-> value.blob[1],
             path |-> value.path, size |-> value.size, created |-> value.created,
             modified |-> value.modified, metadata |-> value.metadata])
    ELSE IF value.zarr # None
    THEN Ok([variant |-> "Zarr", asset_id |-> value.asset_id, zarr_id |-> value.zarr[1],
             path |-> value.path, size |-> value.size, created |-> value.created,
             modified |-> value.modified, metadata |-> value.metadata])
    ELSE Err([variant |-> "Neither", asset_id |-> value.asset_id])

\* TryFromRawAsset with the two timestamps of a Zarr asset exchanged
TryFromRawAssetSwapStamps(value) ==
    CASE value.blob # None /\ value.zarr = None ->
            Ok([variant |-> "Blob", asset_id |-> value.asset_id, blob_id |-> value.blob[1],
                path |-> value.path, size |-> value.size, created |-> value.created,
                modified |-> value.modified, metadata |-> value.metadata])
      [] value.blob = None /\ value.zarr # None ->
            Ok([variant |-> "Zarr", asset_id |-> value.asset_id, zarr_id |-> value.zarr[1],
                path |-> value.path, size |-> value.size, created |-> value.modified,
                modified |-> value.created, metadata |-> value.metadata])
      [] value.blob = None /\ value.zarr = None ->
            Err([variant |-> "Neither", asset_id |-> value.asset_id])
      [] value.blob # None /\ value.zarr # None ->
            Err([variant |-> "Both", asset_id |-> value.asset_id])

\* impl TryFrom<RawAsset> for Asset
TryFromRawAsset(value) ==
    CASE value.blob # None /\ value.zarr = None ->
            Ok([variant |-> "Blob",
                asset_id |-> value.asset_id,
                blob_id |-> value.blob[1],
                path |-> value.path,
                size |-> value.size,
                created |-> value.created,
                modified |-> value.modified,
                metadata |-> value.metadata])
      [] value.blob = None /\ value.zarr # None ->
            Ok([variant |-> "Zarr",
                asset_id |-> value.asset_id,
                zarr_id |-> value.zarr[1],
                path |-> value.path,
                size |-> value.size,
                created |-> value.created,
                modified |-> value.modified,
                metadata |-> value.metadata])
      [] value.blob = None /\ value.zarr = None ->
            Err([variant |-> "Neither", asset_id |-> value.asset_id])
      [] value.blob # None /\ value.zarr # None ->
            Err([variant |-> "Both", asset_id |-> value.asset_id])

\* Asset::path, Asset::size, Asset::created, Asset::modified, Asset::metadata
AssetPath(a) == IF a.variant = "Blob" THEN a.path ELSE a.path
AssetSize(a) == IF a.variant = "Blob" THEN a.size ELSE a.size
AssetCreated(a) == IF a.variant = "Blob" THEN a.created ELSE a.created
AssetModified(a) == IF a.variant = "Blob" THEN a.modified ELSE a.modified
AssetMetadata(a) == IF a.variant = "Blob" THEN a.metadata ELSE a.metadata

\* Result::ok
ResultOk(r) == IF r.ok THEN Some(r.val) ELSE None

\* .iter().find(|url| S3Location::parse_url(url).is_ok()): the first element
\* of the list for which the closure holds, None when there is none
RECURSIVE FindS3Url(_)
FindS3Url(urls) ==
    IF urls = << >> THEN None
    ELSE IF ParseUrl(Head(urls)).ok THEN Some(Head(urls))
    ELSE FindS3Url(Tail(urls))

\* find_map that gives up after the first content URL
FindMapFirstOnly(urls) ==
    IF urls = << >> THEN None ELSE ResultOk(ParseUrl(Head(urls)))

\* .iter().find_map(|url| S3Location::parse_url(url).ok()): the first Some
\* the closure produces, None when it produces none
RECURSIVE FindMapS3Location(_)
FindMapS3Location(urls) ==
    IF urls = << >> THEN None
    ELSE IF ResultOk(ParseUrl(Head(urls))) # None THEN ResultOk(ParseUrl(Head(urls)))
    ELSE FindMapS3Location(Tail(urls))

\* BlobAsset::download_url
DownloadUrl(a) == FindS3Url(a.metadata.content_url)

\* ZarrAsset::s3location
S3Location(a) == FindMapS3Location(a.metadata.content_url)

\* A raw record is deserialized into an Asset
ConvertAsset ==
    /\ converted = None
    /\ converted' = Some(TryFromRawAsset(raw))
    /\ UNCHANGED <<raw, observed, located>>
    /\ UNCHANGED <<entryVars, resourceVars, depthVars, hrefVars, dateVars>>

\* The accessors are called on a successfully converted asset
ReadAccessors ==
    /\ converted # None /\ converted[1].ok
    /\ observed = None
    /\ LET a == converted[1].val
       IN  observed' = Some([path |-> AssetPath(a),
                             size |-> AssetSize(a),
                             created |-> AssetCreated(a),
                             modified |-> AssetModified(a),
                             metadata |-> AssetMetadata(a)])
    /\ UNCHANGED <<raw, converted, located>>
    /\ UNCHANGED <<entryVars, resourceVars, depthVars, hrefVars, dateVars>>

\* download_url is called on a blob asset
CallDownloadUrl ==
    /\ converted # None /\ converted[1].ok
    /\ converted[1].val.variant = "Blob"
    /\ located = None
    /\ located' = Some(DownloadUrl(converted[1].val))
    /\ UNCHANGED <<raw, converted, observed>>
    /\ UNCHANGED <<entryVars, resourceVars, depthVars, hrefVars, dateVars>>

\* s3location is called on a Zarr asset
CallS3Location ==
    /\ converted # None /\ converted[1].ok
    /\ converted[1].val.variant = "Zarr"
    /\ located = None
    /\ located' = Some(S3Location(converted[1].val))
    /\ UNCHANGED <<raw, converted, observed>>
    /\ UNCHANGED <<entryVars, resourceVars, depthVars, hrefVars, dateVars>>

NextAsset ==
    \/ ConvertAsset
    \/ ReadAccessors
    \/ CallDownloadUrl
    \/ CallS3Location

(***************************************************************************)
(* dandiapi/types.rs: entries of a children listing                        *)
(***************************************************************************)

\* Largest number of segments in the path of a listing entry
MaxSegments == 3

Segments == {"sub", "img.nii", "data.zarr"}

\* The string of a PurePath with the given segments
RECURSIVE JoinPath(_)
JoinPath(segs) ==
    IF Len(segs) = 1 THEN segs[1]
    ELSE segs[1] \o "/" \o JoinPath(Tail(segs))

\* PurePath values: one or more segments separated by "/"
PurePaths == {JoinPath(segs) : segs \in SeqUpTo(Segments, MaxSegments) \ {<< >>}}

\* PurePath::to_dir_path: the directory path with the same segments, whose
\* string carries exactly one trailing separator
ToDirPath(p) == p \o "/"

RawFolderEntries ==
    [path : PurePaths,
     asset : {None} \cup {Some([asset_id |-> id]) : id \in AssetIds}]

\* FromRawFolderEntry with the path of a folder left a file path
FromRawFolderEntryNoDirPath(e) ==
    IF e.asset # None
    THEN [variant |-> "Asset", path |-> e.path, id |-> e.asset[1].asset_id]
    ELSE [variant |-> "Folder", folder |-> [path |-> e.path]]

\* impl From<RawFolderEntry> for FolderEntry
FromRawFolderEntry(e) ==
    IF e.asset # None
    THEN [variant |-> "Asset", path |-> e.path, id |-> e.asset[1].asset_id]
    ELSE [variant |-> "Folder", folder |-> [path |-> ToDirPath(e.path)]]

\* An item of an assets/paths response is deserialized
ConvertEntry ==
    /\ folderEntry = None
    /\ folderEntry' = Some(FromRawFolderEntry(entry))
    /\ UNCHANGED <<entry, assetVars, resourceVars, depthVars, hrefVars, dateVars>>

NextEntry == ConvertEntry

(***************************************************************************)
(* dandiapi/types.rs: resources with and without a storage handle          *)
(***************************************************************************)

AssetFolders == {[path |-> ToDirPath(p)] : p \in {"sub", "sub/deep"}}

\* Assets as the deserializer produces them
Assets ==
    {TryFromRawAsset(r).val :
        r \in {x \in RawAssets : /\ TryFromRawAsset(x).ok
                                 /\ x.asset_id = "asset-1"
                                 /\ x.size = 100
                                 /\ x.created = x.modified
                                 /\ x.metadata.encoding_format = None
                                 /\ Len(x.metadata.content_url) = 1}}

ZarrFolders == {[path |-> ToDirPath(p)] : p \in {"0", "0/1"}}

ZarrEntries ==
    [path : {".zattrs", "0/0"},
     size : {42},
     modified : Stamps,
     etag : {"d41d8cd9"},
     url : {[scheme |-> "https", host |-> "dandi-zarr.s3.us-east-2.amazonaws.com",
             path |-> "zarr/z1/0/0"]}]

DandiResources ==
    {[variant |-> "Folder", inner |-> f] : f \in AssetFolders}
    \cup {[variant |-> "Asset", inner |-> a] : a \in Assets}
    \cup {[variant |-> "ZarrFolder", inner |-> f] : f \in ZarrFolders}
    \cup {[variant |-> "ZarrEntry", inner |-> e] : e \in ZarrEntries}

AtAssetPaths ==
    {[variant |-> "Folder", inner |-> f] : f \in AssetFolders}
    \cup {[variant |-> "Asset", inner |-> a] : a \in Assets}

PrefixedS3Clients ==
    [bucket : {"dandi-zarr"}, prefix : {"zarr/z1/", "zarr/z2/", "zarr/z3/"}]

\* DandiResource::with_s3
WithS3(self, s3) ==
    CASE self.variant = "Folder" -> [variant |-> "Folder", inner |-> self.inner]
      [] self.variant = "Asset" -> [variant |-> "Asset", inner |-> self.inner]
      [] self.variant = "ZarrFolder" ->
            [variant |-> "ZarrFolder", folder |-> self.inner, s3 |-> s3]
      [] self.variant = "ZarrEntry" -> [variant |-> "ZarrEntry", inner |-> self.inner]

\* impl From<AtAssetPath> for DandiResourceWithS3
FromAtAssetPath(value) ==
    CASE value.variant = "Folder" -> [variant |-> "Folder", inner |-> value.inner]
      [] value.variant = "Asset" -> [variant |-> "Asset", inner |-> value.inner]

\* FromDandiResourceWithS3 with a Zarr folder coming back as an asset folder
FromDandiResourceWithS3ZarrAsFolder(value) ==
    CASE value.variant = "Folder" -> [variant |-> "Folder", inner |-> value.inner]
      [] value.variant = "Asset" -> [variant |-> "Asset", inner |-> value.inner]
      [] value.variant = "ZarrFolder" -> [variant |-> "Folder", inner |-> value.folder]
      [] value.variant = "ZarrEntry" -> [variant |-> "ZarrEntry", inner |-> value.inner]

\* impl From<DandiResourceWithS3> for DandiResource
FromDandiResourceWithS3(value) ==
    CASE value.variant = "Folder" -> [variant |-> "Folder", inner |-> value.inner]
      [] value.variant = "Asset" -> [variant |-> "Asset", inner |-> value.inner]
      [] value.variant = "ZarrFolder" -> [variant |-> "ZarrFolder", inner |-> value.folder]
      [] value.variant = "ZarrEntry" -> [variant |-> "ZarrEntry", inner |-> value.inner]

\* The storage handle is attached
CallWithS3 ==
    /\ res # None
    /\ withS3 = None
    /\ withS3' = Some(WithS3(res[1], client))
    /\ UNCHANGED <<res, client, atPath, back, assetVars, entryVars, depthVars, hrefVars, dateVars>>

\* A path of the metadata API becomes a DandiResourceWithS3
ConvertAtAssetPath ==
    /\ atPath # None
    /\ withS3 = None
    /\ withS3' = Some(FromAtAssetPath(atPath[1]))
    /\ UNCHANGED <<res, client, atPath, back, assetVars, entryVars, depthVars, hrefVars, dateVars>>

\* The storage handle is dropped
DropS3 ==
    /\ withS3 # None
    /\ back = None
    /\ back' = Some(FromDandiResourceWithS3(withS3[1]))
    /\ UNCHANGED <<res, client, atPath, withS3, assetVars, entryVars, depthVars, hrefVars, dateVars>>

NextResource ==
    \/ CallWithS3
    \/ ConvertAtAssetPath
    \/ DropS3

(***************************************************************************)
(* dav/util.rs: the Depth header extractor                                 *)
(***************************************************************************)

\* Largest number of Depth headers in one request
MaxDepthHeaders == 2

\* Largest number of backend calls the handler makes for one request
MaxBackendCalls == 2

\* Header values are byte strings
Str0 == <<48>>
Str1 == <<49>>
StrInfinity == <<105, 110, 102, 105, 110, 105, 116, 121>>

DepthHeaderValues ==
    { Str0, Str1, StrInfinity,
      <<50>>,                     \* "2"
      << >>,                      \* ""
      <<48, 32>>,                 \* "0 "
      <<73, 110, 102, 105, 110, 105, 116, 121>>,   \* "Infinity"
      <<255>>,                    \* not text
      <<49, 200>> }               \* "1" followed by a byte that is not text

StatusForbidden == 403
StatusBadRequest == 400
StatusMultiStatus == 207

DAV_XML_CONTENT_TYPE == "text/xml; charset=utf-8"
TEXT_PLAIN_CONTENT_TYPE == "text/plain; charset=utf-8"

INFINITE_DEPTH_RESPONSE ==
    "<?xml version=\"1.0\" encoding=\"utf-8\"?>\n<error xmlns=\"DAV:\">\n    <propfind-finite-depth />\n</error>\n"

\* HeaderMap::get: the first value of the header, None when there is none
HeaderGet(hs) == IF hs = << >> THEN None ELSE Some(Head(hs))

\* HeaderValue::to_str: the value as text when every byte is a visible ASCII
\* character or a tab, an error otherwise
ToStr(v) ==
    IF \A i \in 1..Len(v) : (v[i] >= 32 /\ v[i] < 127) \/ v[i] = 9
    THEN Ok(v)
    ELSE Err("ToStrError")

\* (StatusCode, [(CONTENT_TYPE, ...)], &str).into_response()
InfiniteDepthResponse ==
    [status |-> StatusForbidden,
     content_type |-> DAV_XML_CONTENT_TYPE,
     body |-> INFINITE_DEPTH_RESPONSE]

\* (StatusCode, &str).into_response()
InvalidDepthResponse ==
    [status |-> StatusBadRequest,
     content_type |-> TEXT_PLAIN_CONTENT_TYPE,
     body |-> "Invalid \"Depth\" header\n"]

\* FromRequestParts with a missing header defaulting to depth 0
FromRequestPartsDefaultZero(hs) ==
    LET h == IF HeaderGet(hs) = None THEN None ELSE Some(ToStr(HeaderGet(hs)[1]))
    IN  CASE h = Some(Ok(Str0)) \/ h = None -> Ok("Zero")
          [] h = Some(Ok(Str1)) -> Ok("One")
          [] h = Some(Ok(StrInfinity)) -> Err(InfiniteDepthResponse)
          [] OTHER -> Err(InvalidDepthResponse)

\* FromRequestParts without the arm for "infinity"
FromRequestPartsNoInfinity(hs) ==
    LET h == IF HeaderGet(hs) = None THEN None ELSE Some(ToStr(HeaderGet(hs)[1]))
    IN  CASE h = Some(Ok(Str0)) -> Ok("Zero")
          [] h = Some(Ok(Str1)) -> Ok("One")
          [] h = None -> Err(InfiniteDepthResponse)
          [] OTHER -> Err(InvalidDepthResponse)

\* FromRequestParts accepting every other value as depth 1
FromRequestPartsLenient(hs) ==
    LET h == IF HeaderGet(hs) = None THEN None ELSE Some(ToStr(HeaderGet(hs)[1]))
    IN  CASE h = Some(Ok(Str0)) -> Ok("Zero")
          [] h = Some(Ok(StrInfinity)) \/ h = None -> Err(InfiniteDepthResponse)
          [] OTHER -> Ok("One")

\* FiniteDepth::from_request_parts
FromRequestParts(hs) ==
    LET h == IF HeaderGet(hs) = None THEN None ELSE Some(ToStr(HeaderGet(hs)[1]))
    IN  CASE h = Some(Ok(Str0)) -> Ok("Zero")
          [] h = Some(Ok(Str1)) -> Ok("One")
          [] h = Some(Ok(StrInfinity)) \/ h = None -> Err(InfiniteDepthResponse)
          [] OTHER -> Err(InvalidDepthResponse)

\* The extractor runs on the request; a rejection is the response
ExtractDepth ==
    /\ pc = "extract"
    /\ LET r == FromRequestParts(headers)
       IN  IF r.ok
           THEN /\ depth' = Some(r.val)
                /\ response' = response
                /\ pc' = "handler"
           ELSE /\ depth' = depth
                /\ response' = Some(r.err)
                /\ pc' = "rejected"
    /\ UNCHANGED <<headers, backendCalls, assetVars, entryVars, resourceVars, hrefVars, dateVars>>

\* The handler, which runs once the extractor has succeeded, calls a backend
HandlerBackendCall ==
    /\ pc = "handler"
    /\ backendCalls < MaxBackendCalls
    /\ backendCalls' = backendCalls + 1
    /\ UNCHANGED <<headers, pc, depth, response, assetVars, entryVars, resourceVars, hrefVars, dateVars>>

\* The handler answers the request
HandlerRespond ==
    /\ pc = "handler"
    /\ response' = Some([status |-> StatusMultiStatus,
                         content_type |-> DAV_XML_CONTENT_TYPE,
                         body |-> "multistatus"])
    /\ pc' = "done"
    /\ UNCHANGED <<headers, depth, backendCalls, assetVars, entryVars, resourceVars, hrefVars, dateVars>>

NextDepth ==
    \/ ExtractDepth
    \/ HandlerBackendCall
    \/ HandlerRespond

(***************************************************************************)
(* dav/util.rs: Href::from_path                                            *)
(***************************************************************************)

\* Largest length of a generated path, in bytes
MaxPathLen == 2

\* The bytes generated paths are made of:
\* a Z 0 9 - . _ ~ / space & ? % + NUL DEL and the non-ASCII bytes C3, A9, FF
PathBytes == {97, 90, 48, 57, 45, 46, 95, 126, 47, 32, 38, 63, 37, 43, 0, 127, 195, 169, 255}

\* The path of test_href_from_path
TestPath ==
    <<47, 126, 99, 108, 101, 101, 115, 104, 47, 102, 111, 111, 32, 98,
      97, 114, 47, 98, 97, 122, 95, 113, 117, 117, 120, 46, 103, 110,
      117, 115, 116, 111, 47, 114, 101, 100, 38, 103, 114, 101, 101,
      110, 63, 98, 108, 117, 101>>

AsciiAlphanumeric == (48..57) \cup (65..90) \cup (97..122)

\* percent_encoding::NON_ALPHANUMERIC: every ASCII byte that is not a letter
\* or a digit
NON_ALPHANUMERIC == (0..127) \ AsciiAlphanumeric

\* NON_ALPHANUMERIC with - . / _ ~ removed
PERCENT_ESCAPED == NON_ALPHANUMERIC \ {45, 46, 47, 95, 126}

\* The ASCII code of the upper-case hexadecimal digit d
HexDigit(d) == IF d < 10 THEN 48 + d ELSE 55 + d

\* percent_encoding::percent_encode_byte: "%XX"
PercentEncodeByte(byte) == <<37, HexDigit(byte \div 16), HexDigit(byte % 16)>>

\* ShouldPercentEncode that consults the set only
ShouldPercentEncodeSetOnly(set, byte) == byte \in set

\* AsciiSet::should_percent_encode: non-ASCII bytes are always encoded
ShouldPercentEncode(set, byte) == byte >= 128 \/ byte \in set

\* percent_encoding::percent_encode(input, set).to_string()
RECURSIVE PercentEncode(_, _)
PercentEncode(input, set) ==
    IF input = << >> THEN << >>
    ELSE (IF ShouldPercentEncode(set, Head(input))
          THEN PercentEncodeByte(Head(input))
          ELSE <<Head(input)>>) \o PercentEncode(Tail(input), set)

\* Href::from_path
FromPath(p) == PercentEncode(p, PERCENT_ESCAPED)

\* The address of a resource is rendered
RenderHref ==
    /\ href = None
    /\ href' = Some(FromPath(path))
    /\ UNCHANGED <<path, assetVars, entryVars, resourceVars, depthVars, dateVars>>

NextHref == RenderHref

(***************************************************************************)
(* dav/util.rs: format_modifieddate                                        *)
(***************************************************************************)

\* An OffsetDateTime is a local date (year, ordinal day of the year), a local
\* time and the UtcOffset (hours, minutes, seconds, all of one sign) the
\* local date and time are at.

IsLeapYear(year) == year % 4 = 0 /\ (year % 25 # 0 \/ year % 16 = 0)

DaysInYear(year) == IF IsLeapYear(year) THEN 366 ELSE 365

\* Days of the year before the first day of month m
DaysBeforeMonth(year, m) ==
    LET common == <<0, 31, 59, 90, 120, 151, 181, 212, 243, 273, 304, 334>>
    IN  common[m] + (IF m > 2 /\ IsLeapYear(year) THEN 1 ELSE 0)

\* Date::from_calendar_date followed by with_hms and assume_offset, as the
\* datetime! macro builds a value
DateTime(year, month, day, hour, minute, second, offset) ==
    [year |-> year,
     ordinal |-> DaysBeforeMonth(year, month) + day,
     hour |-> hour, minute |-> minute, second |-> second,
     offset |-> offset]

UtcOffset(h, m, sec) == [hours |-> h, minutes |-> m, seconds |-> sec]

UTC == UtcOffset(0, 0, 0)

\* Date::month
MonthOf(year, ordinal) ==
    CHOOSE m \in 1..12 :
        /\ DaysBeforeMonth(year, m) < ordinal
        /\ (m = 12 \/ ordinal <= DaysBeforeMonth(year, m + 1))

\* Date::day
DayOf(year, ordinal) == ordinal - DaysBeforeMonth(year, MonthOf(year, ordinal))

\* Date::to_julian_day
ToJulianDay(year, ordinal) ==
    LET y == year - 1
    IN  ordinal + 365 * y + (y \div 4) - (y \div 100) + (y \div 400) + 1721425

\* Date::weekday, written as the short name the formatter prints
WeekdayShort(year, ordinal) ==
    <<"Mon", "Tue", "Wed", "Thu", "Fri", "Sat", "Sun">>[(ToJulianDay(year, ordinal) % 7) + 1]

MonthShort(m) ==
    <<"Jan", "Feb", "Mar", "Apr", "May", "Jun",
      "Jul", "Aug", "Sep", "Oct", "Nov", "Dec">>[m]

\* OffsetDateTime::to_offset: the same instant at another offset.  Each unit
\* is shifted by the difference of the offsets and the overflow of a unit is
\* carried into the next one (seconds, minutes, hours, day of the year, year).
ToOffset(self, to) ==
    IF self.offset = to THEN self
    ELSE
    LET from == self.offset
        second0 == self.second - from.seconds + to.seconds
        minute0 == self.minute - from.minutes + to.minutes
        hour0 == self.hour - from.hours + to.hours
        second == IF second0 >= 60 THEN second0 - 60
                  ELSE IF second0 < 0 THEN second0 + 60 ELSE second0
        minute1 == IF second0 >= 60 THEN minute0 + 1
                   ELSE IF second0 < 0 THEN minute0 - 1 ELSE minute0
        minute == IF minute1 >= 60 THEN minute1 - 60
                  ELSE IF minute1 < 0 THEN minute1 + 60 ELSE minute1
        hour1 == IF minute1 >= 60 THEN hour0 + 1
                 ELSE IF minute1 < 0 THEN hour0 - 1 ELSE hour0
        hour == IF hour1 >= 24 THEN hour1 - 24
                ELSE IF hour1 < 0 THEN hour1 + 24 ELSE hour1
        ordinal1 == IF hour1 >= 24 THEN self.ordinal + 1
                    ELSE IF hour1 < 0 THEN self.ordinal - 1 ELSE self.ordinal
        year == IF ordinal1 > DaysInYear(self.year) THEN self.year + 1
                ELSE IF ordinal1 < 1 THEN self.year - 1 ELSE self.year
        ordinal == IF ordinal1 > DaysInYear(self.year) THEN ordinal1 - DaysInYear(self.year)
                   ELSE IF ordinal1 < 1 THEN ordinal1 + DaysInYear(self.year - 1)
                   ELSE ordinal1
    IN  [year |-> year, ordinal |-> ordinal,
         hour |-> hour, minute |-> minute, second |-> second,
         offset |-> to]

Digits == <<"0", "1", "2", "3", "4", "5", "6", "7", "8", "9">>

\* A number printed with padding:zero in two columns
Pad2(n) == Digits[(n \div 10) + 1] \o Digits[(n % 10) + 1]

\* A year printed in four columns
Pad4(n) == Pad2(n \div 100) \o Pad2(n % 100)

\* OffsetDateTime::format with the RFC1123 description:
\* "[weekday repr:short], [day] [month repr:short] [year] [hour]:[minute]:[second] GMT"
FormatRfc1123(d) ==
    WeekdayShort(d.year, d.ordinal) \o ", "
    \o Pad2(DayOf(d.year, d.ordinal)) \o " "
    \o MonthShort(MonthOf(d.year, d.ordinal)) \o " "
    \o Pad4(d.year) \o " "
    \o Pad2(d.hour) \o ":" \o Pad2(d.minute) \o ":" \o Pad2(d.second)
    \o " GMT"

\* FormatModifieddate without the conversion to UTC
FormatModifieddateLocal(d) == FormatRfc1123(d)

\* format_modifieddate
FormatModifieddate(d) == FormatRfc1123(ToOffset(d, UTC))

\* Local calendar dates (year, month, day), times of day and offsets of the
\* generated timestamps
LocalDates ==
    { <<1994, 11, 6>>, <<1999, 12, 31>>, <<2000, 1, 1>>,
      <<2000, 2, 29>>, <<2000, 3, 1>>, <<1900, 3, 1>> }

LocalTimes ==
    { <<0, 0, 0>>, <<3, 49, 37>>, <<8, 49, 37>>, <<4, 59, 59>>, <<23, 59, 59>> }

Offsets ==
    { UTC, UtcOffset(-5, 0, 0), UtcOffset(5, 30, 0), UtcOffset(0, 0, -23) }

OffsetDateTimes ==
    { DateTime(d[1], d[2], d[3], t[1], t[2], t[3], o) :
        d \in LocalDates, t \in LocalTimes, o \in Offsets }

\* The modification dates of two resources are rendered
RenderModified ==
    /\ rendered = None
    /\ rendered' = Some(FormatModifieddate(dt))
    /\ rendered2' = Some(FormatModifieddate(dt2))
    /\ UNCHANGED <<dt, dt2, assetVars, entryVars, resourceVars, depthVars, hrefVars>>

NextDate == RenderModified

(***************************************************************************)
(* Specifications: one per group of operations.  The variables of the      *)
(* other groups hold no value and never change.                            *)
(***************************************************************************)

\* A raw asset record arrives from the metadata API
InitAsset ==
    /\ raw \in RawAssets
    /\ converted = None
    /\ observed = None
    /\ located = None
    /\ entry = None
    /\ folderEntry = None
    /\ res = None
    /\ client = None
    /\ atPath = None
    /\ withS3 = None
    /\ back = None
    /\ headers = None
    /\ pc = "idle"
    /\ depth = None
    /\ response = None
    /\ backendCalls = 0
    /\ path = None
    /\ href = None
    /\ dt = None
    /\ dt2 = None
    /\ rendered = None
    /\ rendered2 = None

SpecAsset == InitAsset /\ [][NextAsset]_vars

\* An item of a children listing arrives from the metadata API
InitEntry ==
    /\ entry \in RawFolderEntries
    /\ folderEntry = None
    /\ raw = None
    /\ converted = None
    /\ observed = None
    /\ located = None
    /\ res = None
    /\ client = None
    /\ atPath = None
    /\ withS3 = None
    /\ back = None
    /\ headers = None
    /\ pc = "idle"
    /\ depth = None
    /\ response = None
    /\ backendCalls = 0
    /\ path = None
    /\ href = None
    /\ dt = None
    /\ dt2 = None
    /\ rendered = None
    /\ rendered2 = None

SpecEntry == InitEntry /\ [][NextEntry]_vars

\* Either a resolved DandiResource and the client of its Zarr, or the
\* AtAssetPath found by a lookup in the metadata API
InitResource ==
    /\ \/ /\ res \in {Some(r) : r \in DandiResources}
          /\ atPath = None
       \/ /\ res = None
          /\ atPath \in {Some(a) : a \in AtAssetPaths}
    /\ client \in PrefixedS3Clients
    /\ withS3 = None
    /\ back = None
    /\ raw = None
    /\ converted = None
    /\ observed = None
    /\ located = None
    /\ entry = None
    /\ folderEntry = None
    /\ headers = None
    /\ pc = "idle"
    /\ depth = None
    /\ response = None
    /\ backendCalls = 0
    /\ path = None
    /\ href = None
    /\ dt = None
    /\ dt2 = None
    /\ rendered = None
    /\ rendered2 = None

SpecResource == InitResource /\ [][NextResource]_vars

\* A request arrives with any number of Depth headers
InitDepth ==
    /\ headers \in SeqUpTo(DepthHeaderValues, MaxDepthHeaders)
    /\ pc = "extract"
    /\ depth = None
    /\ response = None
    /\ backendCalls = 0
    /\ raw = None
    /\ converted = None
    /\ observed = None
    /\ located = None
    /\ entry = None
    /\ folderEntry = None
    /\ res = None
    /\ client = None
    /\ atPath = None
    /\ withS3 = None
    /\ back = None
    /\ path = None
    /\ href = None
    /\ dt = None
    /\ dt2 = None
    /\ rendered = None
    /\ rendered2 = None

SpecDepth == InitDepth /\ [][NextDepth]_vars

\* A path is about to be rendered as an address
InitHref ==
    /\ path \in SeqUpTo(PathBytes, MaxPathLen) \cup {TestPath}
    /\ href = None
    /\ raw = None
    /\ converted = None
    /\ observed = None
    /\ located = None
    /\ entry = None
    /\ folderEntry = None
    /\ res = None
    /\ client = None
    /\ atPath = None
    /\ withS3 = None
    /\ back = None
    /\ headers = None
    /\ pc = "idle"
    /\ depth = None
    /\ response = None
    /\ backendCalls = 0
    /\ dt = None
    /\ dt2 = None
    /\ rendered = None
    /\ rendered2 = None

SpecHref == InitHref /\ [][NextHref]_vars

\* Two modification timestamps are about to be rendered
InitDate ==
    /\ dt \in OffsetDateTimes
    /\ dt2 \in OffsetDateTimes
    /\ rendered = None
    /\ rendered2 = None
    /\ raw = None
    /\ converted = None
    /\ observed = None
    /\ located = None
    /\ entry = None
    /\ folderEntry = None
    /\ res = None
    /\ client = None
    /\ atPath = None
    /\ withS3 = None
    /\ back = None
    /\ headers = None
    /\ pc = "idle"
    /\ depth = None
    /\ response = None
    /\ backendCalls = 0
    /\ path = None
    /\ href = None

SpecDate == InitDate /\ [][NextDate]_vars

(***************************************************************************)
(* Properties                                                              *)
(***************************************************************************)

\* The outcomes of a conversion result r that hold of it
OutcomesOf(r) ==
    {o \in {"Blob", "Zarr", "Neither", "Both"} :
        \/ o \in {"Blob", "Zarr"} /\ r.ok /\ r.val.variant = o
        \/ o \in {"Neither", "Both"} /\ ~r.ok /\ r.err.variant = o}

\* C1: converting a raw asset record has exactly one outcome, decided by the
\* backing ids that are present: blob only gives a BlobAsset, zarr only a
\* ZarrAsset, neither the Neither error, both the Both error; an error
\* carries the asset id of the record.
AssetOutcomeDecidedByIds ==
    converted # None =>
        LET r == converted[1]
            hasBlob == raw.blob # None
            hasZarr == raw.zarr # None
        IN  /\ Cardinality(OutcomesOf(r)) = 1
            /\ (hasBlob /\ ~hasZarr) =>
                    (r.ok /\ r.val.variant = "Blob" /\ r.val.blob_id = raw.blob[1])
            /\ (~hasBlob /\ hasZarr) =>
                    (r.ok /\ r.val.variant = "Zarr" /\ r.val.zarr_id = raw.zarr[1])
            /\ (~hasBlob /\ ~hasZarr) =>
                    (~r.ok /\ r.err = [variant |-> "Neither", asset_id |-> raw.asset_id])
            /\ (hasBlob /\ hasZarr) =>
                    (~r.ok /\ r.err = [variant |-> "Both", asset_id |-> raw.asset_id])

\* A record with both ids set has been converted
BothIdsConverted ==
    /\ converted # None
    /\ raw.blob # None /\ raw.zarr # None
    /\ ~converted[1].ok

\* C6: a successful conversion copies asset id, path, size, created,
\* modified, metadata and the backing id into the asset unchanged, and the
\* accessors return the raw record's values.
AssetFieldsCopied ==
    /\ (converted # None /\ converted[1].ok) =>
            LET a == converted[1].val
            IN  /\ a.asset_id = raw.asset_id
                /\ a.path = raw.path
                /\ a.size = raw.size
                /\ a.created = raw.created
                /\ a.modified = raw.modified
                /\ a.metadata = raw.metadata
                /\ a.variant = "Blob" => a.blob_id = raw.blob[1]
                /\ a.variant = "Zarr" => a.zarr_id = raw.zarr[1]
    /\ observed # None =>
            observed[1] = [path |-> raw.path, size |-> raw.size,
                           created |-> raw.created, modified |-> raw.modified,
                           metadata |-> raw.metadata]

\* The accessors have been read on a Zarr asset whose timestamps differ
ZarrAccessorsRead ==
    /\ observed # None
    /\ converted[1].val.variant = "Zarr"
    /\ raw.created # raw.modified
    /\ raw.metadata.content_url # << >>

\* The indices of the content URLs of asset a that parse as storage locations
ParsableIndices(a) ==
    {i \in 1..Len(a.metadata.content_url) : ParseUrl(a.metadata.content_url[i]).ok}

\* C8: s3location returns the location parsed from the first content URL, in
\* list order, that parses as a storage location, and none exactly when no
\* URL parses; download_url returns that first parsable URL itself.
FirstParsableUrlSelected ==
    located # None =>
        LET a == converted[1].val
            urls == a.metadata.content_url
            idx == ParsableIndices(a)
        IN  IF idx = {}
            THEN located[1] = None
            ELSE LET first == CHOOSE i \in idx : \A j \in idx : i <= j
                 IN  IF a.variant = "Zarr"
                     THEN located[1] = Some(ParseUrl(urls[first]).val)
                     ELSE located[1] = Some(urls[first])

\* s3location has skipped a URL that does not parse and found a later one
UnparsableUrlSkipped ==
    /\ located # None
    /\ converted[1].val.variant = "Zarr"
    /\ Len(raw.metadata.content_url) = 2
    /\ ~ParseUrl(raw.metadata.content_url[1]).ok
    /\ ParseUrl(raw.metadata.content_url[2]).ok
    /\ located[1] # None

\* C7: a listing entry without an asset becomes a Folder whose path is the
\* entry's path as a directory path, an entry with an asset becomes an Asset
\* entry with the entry's path and asset id; never the reverse.
EntryConvertedByAssetPresence ==
    folderEntry # None =>
        IF entry.asset = None
        THEN folderEntry[1] =
                [variant |-> "Folder", folder |-> [path |-> ToDirPath(entry.path)]]
        ELSE folderEntry[1] =
                [variant |-> "Asset", path |-> entry.path, id |-> entry.asset[1].asset_id]

\* A folder indicator with a nested path has been converted
NestedFolderConverted ==
    /\ folderEntry # None
    /\ entry.asset = None
    /\ entry.path = "sub/data.zarr"
    /\ folderEntry[1].variant = "Folder"

\* C10: attaching a storage handle and dropping it again gives back the
\* resource; with_s3 keeps the variant and stores the handle in ZarrFolder
\* only; an AtAssetPath comes back as the same Folder or Asset.
S3HandleRoundTrip ==
    /\ (res # None /\ withS3 # None) =>
            /\ withS3[1].variant = res[1].variant
            /\ IF res[1].variant = "ZarrFolder"
               THEN withS3[1].folder = res[1].inner /\ withS3[1].s3 = client
               ELSE withS3[1].inner = res[1].inner /\ "s3" \notin DOMAIN withS3[1]
    /\ (res # None /\ back # None) => back = res
    /\ (atPath # None /\ back # None) =>
            /\ back[1].variant = atPath[1].variant
            /\ back[1].inner = atPath[1].inner

\* The handle of a Zarr folder has been attached and dropped
ZarrFolderHandleDropped ==
    /\ back # None
    /\ res # None
    /\ res[1].variant = "ZarrFolder"
    /\ withS3[1].s3 = client

\* The response that refuses unlimited depth
DepthNotSupported ==
    [status |-> 403,
     content_type |-> "text/xml; charset=utf-8",
     body |-> "<?xml version=\"1.0\" encoding=\"utf-8\"?>\n<error xmlns=\"DAV:\">\n    <propfind-finite-depth />\n</error>\n"]

\* The first Depth header of the request is v
DepthIs(v) == headers # << >> /\ headers[1] = v

\* The request's depth is neither "0" nor "1"
DepthOutsideLegal == ~DepthIs(Str0) /\ ~DepthIs(Str1)

\* C2, as stated: every depth value outside the two legal states yields the
\* refusal given for unlimited depth, before any backend call.
IllegalDepthIsUnsupportedDepth ==
    (pc # "extract" /\ DepthOutsideLegal) =>
        /\ response = Some(DepthNotSupported)
        /\ backendCalls = 0

\* C2, amended: every depth value outside the two legal states is refused by
\* the extractor before any backend call; the refusal is the one for
\* unlimited depth when the header is "infinity" or missing, and 400 Bad
\* Request for every other value.
IllegalDepthRefusedBeforeBackend ==
    (pc # "extract" /\ DepthOutsideLegal) =>
        /\ pc = "rejected"
        /\ depth = None
        /\ backendCalls = 0
        /\ response # None
        /\ IF headers = << >> \/ DepthIs(StrInfinity)
           THEN response[1] = DepthNotSupported
           ELSE response[1].status = 400 /\ response[1] # DepthNotSupported

\* A request with Depth "2" has been refused
DepthTwoRefused ==
    /\ pc = "rejected"
    /\ DepthIs(<<50>>)
    /\ response # None

\* C3: Depth "0" is accepted as Zero, Depth "1" as One, and Depth "infinity"
\* is never accepted: it gets 403 with the propfind-finite-depth body, which
\* is not the response of a generic failure.
DepthTwoLegalStates ==
    pc # "extract" =>
        /\ DepthIs(Str0) => (depth = Some("Zero") /\ pc \in {"handler", "done"})
        /\ DepthIs(Str1) => (depth = Some("One") /\ pc \in {"handler", "done"})
        /\ DepthIs(StrInfinity) =>
                /\ depth = None
                /\ pc = "rejected"
                /\ response = Some(DepthNotSupported)
                /\ response[1].status # 400
                /\ response[1] # InvalidDepthResponse
        /\ depth # None => (DepthIs(Str0) \/ DepthIs(Str1))

\* A request with Depth "infinity" has been refused
InfinityRefused ==
    /\ pc = "rejected"
    /\ DepthIs(StrInfinity)
    /\ response # None

\* C9: a request without a Depth header is refused like Depth "infinity",
\* with 403 and the propfind-finite-depth body, never defaulted to a depth;
\* a header with any other value, text or not, is refused with 400.
MissingDepthRefusedAsInfinite ==
    pc # "extract" =>
        /\ headers = << >> =>
                /\ pc = "rejected"
                /\ depth = None
                /\ response = Some(DepthNotSupported)
        /\ (headers # << >> /\ headers[1] \notin {Str0, Str1, StrInfinity}) =>
                /\ pc = "rejected"
                /\ depth = None
                /\ response # None
                /\ response[1].status = 400

\* A request without a Depth header has been refused
MissingDepthRefused ==
    /\ pc = "rejected"
    /\ headers = << >>
    /\ response # None

\* A letter, a digit or one of - . _ ~ /
IsSafeChar(byte) ==
    \/ byte \in 65..90
    \/ byte \in 97..122
    \/ byte \in 48..57
    \/ byte \in {45, 46, 95, 126, 47}

IsUpperHex(byte) == byte \in (48..57) \cup (65..70)

HexValue(byte) == IF byte <= 57 THEN byte - 48 ELSE byte - 55

\* s consists of safe characters and %XX escapes only
RECURSIVE OnlySafeAndEscapes(_)
OnlySafeAndEscapes(s) ==
    \/ s = << >>
    \/ IsSafeChar(Head(s)) /\ OnlySafeAndEscapes(Tail(s))
    \/ /\ Head(s) = 37
       /\ Len(s) >= 3
       /\ IsUpperHex(s[2]) /\ IsUpperHex(s[3])
       /\ OnlySafeAndEscapes(SubSeq(s, 4, Len(s)))

\* The bytes a string of safe characters and escapes stands for
RECURSIVE PercentDecode(_)
PercentDecode(s) ==
    IF s = << >> THEN << >>
    ELSE IF Head(s) = 37
    THEN <<16 * HexValue(s[2]) + HexValue(s[3])>> \o PercentDecode(SubSeq(s, 4, Len(s)))
    ELSE <<Head(s)>> \o PercentDecode(Tail(s))

\* The expected value of test_href_from_path
TestHref ==
    <<47, 126, 99, 108, 101, 101, 115, 104, 47, 102, 111, 111, 37, 50,
      48, 98, 97, 114, 47, 98, 97, 122, 95, 113, 117, 117, 120, 46,
      103, 110, 117, 115, 116, 111, 47, 114, 101, 100, 37, 50, 54,
      103, 114, 101, 101, 110, 37, 51, 70, 98, 108, 117, 101>>

\* C4: from_path copies letters, digits and - . _ ~ / unchanged and replaces
\* every other byte by its %XX escape: the output holds safe characters and
\* escapes only, has one escape per unsafe byte, and decodes to the input.
HrefEncodesPath ==
    href # None =>
        /\ OnlySafeAndEscapes(href[1])
        /\ PercentDecode(href[1]) = path
        /\ Len(href[1]) =
              Len(path) + 2 * Cardinality({i \in 1..Len(path) : ~IsSafeChar(path[i])})
        /\ path = TestPath => href[1] = TestHref

\* A path with a safe byte and a non-ASCII byte has been encoded
NonAsciiEncoded ==
    /\ href # None
    /\ path = <<126, 195>>
    /\ Len(href[1]) = 4

\* Days from 1970-01-01 to the first day of the given year
RECURSIVE DaysToYear(_)
DaysToYear(year) ==
    IF year = 1970 THEN 0
    ELSE IF year > 1970
    THEN DaysToYear(year - 1)
         + (IF (year - 1) % 4 = 0 /\ ((year - 1) % 100 # 0 \/ (year - 1) % 400 = 0)
            THEN 366 ELSE 365)
    ELSE DaysToYear(year + 1)
         - (IF year % 4 = 0 /\ (year % 100 # 0 \/ year % 400 = 0) THEN 366 ELSE 365)

\* The instant a timestamp denotes: days since 1970-01-01 and second of the
\* day, both in UTC
InstantOf(d) ==
    LET local == d.hour * 3600 + d.minute * 60 + d.second
        off == d.offset.hours * 3600 + d.offset.minutes * 60 + d.offset.seconds
        total == local - off
    IN  <<DaysToYear(d.year) + d.ordinal - 1 + (total \div 86400), total % 86400>>

\* The calendar date (year, month, day) of a day counted from 1970-01-01
CivilFromDays(days) ==
    LET z == days + 719468
        era == z \div 146097
        doe == z - era * 146097
        yoe == (doe - (doe \div 1460) + (doe \div 36524) - (doe \div 146096)) \div 365
        doy == doe - (365 * yoe + (yoe \div 4) - (yoe \div 100))
        mp == (5 * doy + 2) \div 153
        d == doy - ((153 * mp + 2) \div 5) + 1
        m == IF mp < 10 THEN mp + 3 ELSE mp - 9
        y == yoe + era * 400 + (IF m <= 2 THEN 1 ELSE 0)
    IN  <<y, m, d>>

\* The RFC 1123 text of an instant
InstantText(i) ==
    LET date == CivilFromDays(i[1])
        weekday == <<"Thu", "Fri", "Sat", "Sun", "Mon", "Tue", "Wed">>[(i[1] % 7) + 1]
    IN  weekday \o ", " \o Pad2(date[3]) \o " " \o MonthShort(date[2]) \o " "
        \o Pad4(date[1]) \o " "
        \o Pad2(i[2] \div 3600) \o ":" \o Pad2((i[2] \div 60) % 60) \o ":" \o Pad2(i[2] % 60)
        \o " GMT"

\* The timestamp of test_format_modifieddate: 1994-11-06 03:49:37 -5
TestDateTime == DateTime(1994, 11, 6, 3, 49, 37, UtcOffset(-5, 0, 0))

\* C5: format_modifieddate renders the date and time of the instant at
\* offset zero, whatever the stored offset, followed by GMT; timestamps that
\* denote the same instant render to the same string.
ModifiedRenderedInUtc ==
    rendered # None =>
        /\ rendered[1] = InstantText(InstantOf(dt))
        /\ rendered2[1] = InstantText(InstantOf(dt2))
        /\ InstantOf(dt) = InstantOf(dt2) => rendered = rendered2
        /\ dt = TestDateTime => rendered[1] = "Sun, 06 Nov 1994 08:49:37 GMT"

\* Two timestamps with different offsets, one of them a local day before the
\* UTC day, have been rendered to the same string
SameInstantAcrossMidnight ==
    /\ rendered # None
    /\ dt = DateTime(1999, 12, 31, 23, 59, 59, UtcOffset(-5, 0, 0))
    /\ dt2 = DateTime(2000, 1, 1, 4, 59, 59, UTC)
    /\ rendered[1] = "Sat, 01 Jan 2000 04:59:59 GMT"
    /\ rendered2 = rendered

====
